---- MODULE Spec2Model ----
(***************************************************************************)
(* A model of the macOS camera back end of uStreamer                       *)
(* (src/libs/macos_camera.m): the camera object macos_camera_s, its        *)
(* AVCaptureSession, the MacOSCameraDelegate that receives sample buffers  *)
(* on the capture queue, and the consumer calls has_frame / grab_frame.    *)
(*                                                                         *)
(* Threads: one control thread (select_device, set_*, start, stop,         *)
(* destroy), the capture callback (a serial dispatch queue, so one         *)
(* invocation at a time) and NumConsumers consumer threads.                *)
(*                                                                         *)
(* Platform behaviour the source relies on and the model takes from the    *)
(* AVFoundation documentation:                                             *)
(*  - sample buffers are delivered only between startRunning and           *)
(*    stopRunning; a callback that began before stopRunning has ended by   *)
(*    the time the 100 ms usleep that stop makes after it is over;         *)
(*  - the video data output delivers buffers of the width and height       *)
(*    given in its videoSettings;                                          *)
(*  - the file is built without ARC (it calls [super dealloc] and          *)
(*    dispatch_release), so an object is released only where the code      *)
(*    releases it.                                                         *)
(***************************************************************************)
EXTENDS Integers, Sequences, FiniteSets, TLC

(* ------------------------------ bounds -------------------------------- *)
NumConsumers == 2       \* consumer threads of Spec
MaxTime == 2            \* the clock stops at MaxTime ticks
MaxFrames == 2          \* frames stored (frameCount) in Spec, SpecLife, SpecFull
MaxDropped == 1         \* frames dropped (droppedFrames) in Spec, SpecLife, SpecFull
MaxStarts == 1          \* starts that allocate an output, in Spec
LifeStarts == 2         \* the same, in SpecLife and SpecFull
SnapDropped == 11       \* frames dropped in SpecSnapshot
ThrottleTime == 3       \* ticks of the clock in SpecThrottle
ReplaceFrames == 12     \* frames stored in SpecReplace
ReplaceTime == 12       \* ticks of the clock in SpecReplace

(* ------------------------- program constants -------------------------- *)
SnapshotEvery == 10
DefaultWidth == 640
DefaultHeight == 480
DefaultFps == 30
TicksPerSecond == 30    \* ticks of the clock per second: 1.0/30 s is one tick
MaxFrameBytes == 50 * 1024 * 1024

(* The cameras the discovery session reports, with the formats and the    *)
(* frame-rate ranges <<min, max>> of each, in enumeration order.          *)
Devices ==
    << [id |-> "cam0",
        formats |-> << [w |-> 640, h |-> 480, ranges |-> << <<30, 30>> >>],
                       [w |-> 1280, h |-> 720, ranges |-> << <<15, 30>>, <<30, 60>> >>] >>],
       [id |-> "cam1",
        formats |-> << [w |-> 1280, h |-> 720, ranges |-> << <<30, 30>> >>] >>] >>

\* the arguments the control thread passes to the configuration calls
Resolutions == { <<800, 600>>, <<1280, 720>>, <<8192, 4096>> }
FpsChoices == { 0, 15, 30 }
PixFormats == { "YUYV", "MJPEG" }

VARIABLES
    cam,                 \* struct macos_camera_s (NULL / nil fields are 0)
    session,             \* AVCaptureSession: the attached inputs and outputs, running
    device,              \* the selected AVCaptureDevice: the activeFormat and frame rate
                         \* start applied, 0 = whatever the session preset selects
    videoSettings,       \* width/height the attached output was configured with
    heap,                \* objects allocated by init/start and not yet released
    frameLock,           \* NSLock: TRUE when held
    latestFrame,         \* delegate.latestFrame: 0 (NULL) or a pixel buffer
    hasNewFrame,
    frameCount,
    droppedFrames,
    lastFrameTime,
    targetFrameInterval,
    buffers,             \* per retained pixel buffer: the delegate's retains/releases
    now,                 \* CACurrentMediaTime, in ticks
    mono,                \* us_get_now_monotonic, in ticks
    conditionLock,       \* the lock of the NSCondition frameCondition: TRUE when held
    cb,                  \* the capture callback: pc and locals; interval is the
                         \* _targetFrameInterval the throttle compared with,
                         \* deliveredAt the reading of mono when the buffer was
                         \* delivered, broken remembers that a sample buffer
                         \* without image buffer came, calls counts the
                         \* invocations that carried a pixel buffer
    ctl,                 \* the control thread: pc, the call in progress, and which
                         \* call returned last, with what (and, for an observed
                         \* select_device, with which device_id)
    cons,                \* per consumer: pc and, between calls, the last return value;
                         \* inside wait_frame the deadline of the wait, and whether a
                         \* frame was stored (accepted) and then signalled meanwhile
    frame,               \* per consumer: the caller's us_frame_s
    stale                \* arrivals dropped as "not yet consumed" since the last store

delegateVars == <<latestFrame, hasNewFrame, frameCount, droppedFrames,
                  lastFrameTime, targetFrameInterval>>
slotVars == <<latestFrame, hasNewFrame>>
camVars == <<cam, session, device, videoSettings, heap>>
vars == <<cam, session, device, videoSettings, heap, frameLock, latestFrame,
          hasNewFrame, frameCount, droppedFrames, lastFrameTime,
          targetFrameInterval, buffers, now, mono, conditionLock, cb, ctl, cons,
          frame, stale>>

(* ------------------------------ helpers ------------------------------- *)

\* 1.0 / fps in ticks; 1.0/0 is +infinity, written -1.
Interval(fps) == IF fps = 0 THEN -1 ELSE TicksPerSecond \div fps

\* a drop that is not counted
CountDropForgotten(n) == n

\* _droppedFrames++
CountDrop(n) == n + 1

\* a throttle that lets every frame pass
TooSoonNever(elapsed, interval) == FALSE

\* (currentTime - _lastFrameTime) < _targetFrameInterval
TooSoon(elapsed, interval) == interval < 0 \/ elapsed < interval

\* a us_frame_s the caller has just created: no data, nothing allocated.
\* src is not a field of us_frame_s: it remembers which pixel buffer the data
\* was copied from (0 = none).
NoFrame == [width |-> 0, height |-> 0, format |-> "NONE", used |-> 0, stride |-> 0,
            online |-> FALSE, grab_ts |-> 0, allocated |-> 0, src |-> 0]

\* CVPixelBufferRetain(pixelBuffer): the delegate's first retain of a buffer
\* the capture pipeline hands over; the buffer gets the next identity. t is
\* the time at which the buffer was delivered to the callback; over counts
\* the unconsumed frames in a row the buffer was stored over (set by the
\* callback's store).
Retain(bufs, w, h, t) ==
    Append(bufs, [retains |-> 1, releases |-> 0, w |-> w, h |-> h, t |-> t,
                  over |-> 0])

\* CVPixelBufferRelease(_latestFrame)
Release(bufs, b) == [bufs EXCEPT ![b].releases = @ + 1]

\* a release that forgets CVPixelBufferRelease
ReleaseLatestLeak(bufs, latest) == <<bufs, 0>>

\* if (_latestFrame) { CVPixelBufferRelease(_latestFrame); _latestFrame = NULL; }
\* gives <<buffers, latestFrame>> after the statement
ReleaseLatest(bufs, latest) ==
    IF latest # 0 THEN <<Release(bufs, latest), 0>> ELSE <<bufs, latest>>

\* a tryLock that takes the lock whoever holds it
TryLockBlind(lock) == TRUE

\* [_frameLock tryLock]: TRUE when the lock was free and is now taken
TryLock(lock) == ~lock

\* a test that never drops
DropUnconsumedNever(hasNew, count) == FALSE

\* the "previous frame not consumed" test of the callback: TRUE = drop
DropUnconsumed(hasNew, count) == hasNew /\ count % SnapshotEvery # 0

\* a test that forgets hasNewFrame
NoNewFrameByPointer(hasNew, latest) == latest = 0

\* if (!cam->delegate.hasNewFrame || !cam->delegate.latestFrame): no new frame
NoNewFrame(hasNew, latest) == ~hasNew \/ latest = 0

\* bytes per row of a YUYV (2 bytes per pixel) buffer
BytesPerRow(w) == 2 * w

\* a timestamp that loses its upper bits
GrabTimestampTruncated(ts) == ts % 2

\* frame->grab_ts = us_get_now_monotonic(), ts being the reading of the clock
GrabTimestamp(ts) == ts

\* a size that forgets the two bytes of a pixel
DataSizePacked(b) == b.w * b.h

\* size_t dataSize = bytesPerRow * height
DataSize(b) == BytesPerRow(b.w) * b.h

\* us_frame_realloc_data(frame, size) of libs/frame.c: the data buffer is
\* grown to size when it is smaller, and never shrunk.
FrameReallocData(fr, size) ==
    IF fr.allocated < size THEN [fr EXCEPT !.allocated = size] ELSE fr

\* a conversion that fills in the frame's header before it tests anything
PixelBufferToFrameClobbering(b, fr, target_format, baseOk, ts) ==
    LET dataSize == DataSize(b)
        written == [fr EXCEPT !.width = b.w, !.height = b.h,
                              !.format = target_format, !.online = TRUE]
    IN  IF ~baseOk \/ dataSize > MaxFrameBytes
        THEN [ret |-> -1, frame |-> written]
        ELSE [ret |-> 0,
              frame |-> [FrameReallocData(written, dataSize) EXCEPT
                            !.used = dataSize, !.stride = BytesPerRow(b.w),
                            !.grab_ts = GrabTimestamp(ts)]]

\* _pixel_buffer_to_frame: the return value and the caller's frame afterwards.
\* baseOk is the outcome of CVPixelBufferLockBaseAddress / GetBaseAddress,
\* ts the reading of us_get_now_monotonic().
PixelBufferToFrame(b, fr, target_format, baseOk, ts) ==
    LET dataSize == DataSize(b) IN
    IF ~baseOk \/ dataSize > MaxFrameBytes
    THEN [ret |-> -1, frame |-> fr]
    ELSE [ret |-> 0,
          frame |-> [FrameReallocData(fr, dataSize) EXCEPT
                        !.used = dataSize, !.width = b.w, !.height = b.h,
                        !.format = target_format, !.stride = BytesPerRow(b.w),
                        !.grab_ts = GrabTimestamp(ts), !.online = TRUE]]

\* a consumer thread between two calls, the last of which returned ret
Idle(ret) == [pc |-> "idle", ret |-> ret, deadline |-> 0, accepted |-> FALSE,
              signalled |-> FALSE]

(* ------------------------------- Init --------------------------------- *)
\* macos_camera_init and [MacOSCameraDelegate init], with the consumer threads
Boot(consumers) ==
    /\ cam = [device |-> 0, input |-> 0, output |-> 0,
              width |-> DefaultWidth, height |-> DefaultHeight, fps |-> DefaultFps,
              format |-> "YUYV", running |-> FALSE, device_name |-> 0]
    /\ session = [inputs |-> {}, outputs |-> {}, running |-> FALSE]
    /\ device = [activeFormat |-> 0, fps |-> 0]
    /\ videoSettings = [w |-> 0, h |-> 0]
    /\ heap = [session |-> 1, delegate |-> 1, queue |-> 1, names |-> 0, outputs |-> 0]
    /\ frameLock = FALSE
    /\ latestFrame = 0
    /\ hasNewFrame = FALSE
    /\ frameCount = 0
    /\ droppedFrames = 0
    /\ lastFrameTime = 0
    /\ targetFrameInterval = Interval(DefaultFps)
    /\ buffers = << >>
    /\ now = 1
    /\ mono = 1
    /\ conditionLock = FALSE
    /\ cb = [pc |-> "idle", currentTime |-> 0, interval |-> 0, deliveredAt |-> 0,
             broken |-> FALSE, calls |-> 0]
    /\ ctl = [pc |-> "idle", op |-> "none", done |-> "none", ret |-> 0, arg |-> ""]
    /\ cons = [c \in consumers |-> Idle(0)]
    /\ frame = [c \in consumers |-> NoFrame]
    /\ stale = 0

(* ------------------------ the capture callback ------------------------ *)
\* the callback returns
CbReturn(c) ==
    [c EXCEPT !.pc = "idle", !.currentTime = 0, !.interval = 0, !.deliveredAt = 0]

\* captureOutput:didOutputSampleBuffer:fromConnection:, up to the throttle.
\* maxF and maxD cap the two counters of the delegate; pixelBuffers are the
\* answers of CMSampleBufferGetImageBuffer (FALSE = NULL) that may occur.
CbArrive(maxF, maxD, pixelBuffers) ==
    /\ cb.pc = "idle"
    /\ session.running /\ session.outputs # {}
    /\ frameCount < maxF /\ droppedFrames < maxD
    /\ \E pixelBuffer \in pixelBuffers :
         IF ~pixelBuffer
         THEN /\ cb' = [cb EXCEPT !.broken = TRUE]
              /\ UNCHANGED droppedFrames
         ELSE IF lastFrameTime > 0 /\ TooSoon(now - lastFrameTime, targetFrameInterval)
              THEN /\ droppedFrames' = CountDrop(droppedFrames)
                   /\ cb' = [cb EXCEPT !.calls = @ + 1]
              ELSE /\ cb' = [cb EXCEPT !.pc = "trylock", !.currentTime = now,
                                       !.interval = targetFrameInterval,
                                       !.deliveredAt = mono, !.calls = @ + 1]
                   /\ UNCHANGED droppedFrames
    /\ UNCHANGED <<camVars, frameLock, latestFrame, hasNewFrame, frameCount,
                   lastFrameTime, targetFrameInterval, buffers, now, mono,
                   conditionLock, ctl, cons, frame, stale>>

\* if (![_frameLock tryLock]) { _droppedFrames++; return; }
CbTryLock ==
    /\ cb.pc = "trylock"
    /\ IF TryLock(frameLock)
       THEN /\ frameLock' = TRUE
            /\ cb' = [cb EXCEPT !.pc = "locked"]
            /\ UNCHANGED droppedFrames
       ELSE /\ droppedFrames' = CountDrop(droppedFrames)
            /\ cb' = CbReturn(cb)
            /\ UNCHANGED frameLock
    /\ UNCHANGED <<camVars, latestFrame, hasNewFrame, frameCount, lastFrameTime,
                   targetFrameInterval, buffers, now, mono, conditionLock, ctl, cons,
                   frame, stale>>

\* a frame is stored while consumers are inside wait_frame: those that have
\* made their availability check and whose wait has not reached its deadline
\* are marked (accepted)
Accepted(cs) ==
    [c \in DOMAIN cs |->
        IF cs[c].pc = "wait_checked" \/ (cs[c].pc = "waiting" /\ now < cs[c].deadline)
        THEN [cs[c] EXCEPT !.accepted = TRUE]
        ELSE cs[c]]

\* the callback's section under frameLock, to [_frameLock unlock]
CbStore ==
    /\ cb.pc = "locked"
    /\ IF DropUnconsumed(hasNewFrame, frameCount)
       THEN /\ droppedFrames' = CountDrop(droppedFrames)
            /\ stale' = stale + 1
            /\ cb' = CbReturn(cb)
            /\ UNCHANGED <<latestFrame, hasNewFrame, frameCount, lastFrameTime, buffers,
                           cons>>
       ELSE LET forced == IF hasNewFrame THEN ReleaseLatest(buffers, latestFrame)
                          ELSE <<buffers, latestFrame>>
                prev == ReleaseLatest(forced[1], forced[2])
                kept == Retain(prev[1], videoSettings.w, videoSettings.h, cb.deliveredAt)
                \* how many unconsumed frames in a row have been replaced
                over == IF hasNewFrame /\ latestFrame # 0
                        THEN buffers[latestFrame].over + 1
                        ELSE 0
            IN  /\ buffers' = [kept EXCEPT ![Len(kept)].over = over]
                /\ latestFrame' = Len(kept)
                /\ hasNewFrame' = TRUE
                /\ frameCount' = frameCount + 1
                /\ lastFrameTime' = cb.currentTime
                /\ stale' = 0
                /\ cb' = [cb EXCEPT !.pc = "signal"]
                /\ cons' = Accepted(cons)
                /\ UNCHANGED droppedFrames
    /\ frameLock' = FALSE
    /\ UNCHANGED <<camVars, targetFrameInterval, now, mono, conditionLock, ctl, frame>>

\* the signal reaches the consumers inside wait_frame that were marked when
\* the frame was stored and have not left their wait
Signalled(cs) ==
    [c \in DOMAIN cs |->
        IF cs[c].accepted /\ cs[c].pc \in {"wait_checked", "waiting"}
        THEN [cs[c] EXCEPT !.signalled = TRUE]
        ELSE cs[c]]

\* [_frameCondition lock]; [_frameCondition signal]; [_frameCondition unlock];
\* the signal wakes one of the threads waiting on the condition, if any
CbSignal ==
    /\ cb.pc = "signal"
    /\ ~conditionLock
    /\ LET waiting == {c \in DOMAIN cons : cons[c].pc = "waiting"} IN
       IF waiting = {}
       THEN cons' = Signalled(cons)
       ELSE \E w \in waiting : cons' = [Signalled(cons) EXCEPT ![w].pc = "woken"]
    /\ cb' = CbReturn(cb)
    /\ UNCHANGED <<camVars, frameLock, delegateVars, buffers, now, mono, conditionLock,
                   ctl, frame, stale>>

(* ------------------ the callback of a camera that streams ------------- *)
\* The callback as above, for behaviours without end: what grows for ever
\* is folded. frameCount is kept modulo SnapshotEvery, which is all the
\* callback reads of it (104); droppedFrames and stale, which no decision
\* reads, stand still; the clocks stand still; a released pixel buffer is
\* forgotten, so that the stored buffer is always the first of buffers.

\* the callback up to the throttle, for a frame that carries a pixel buffer
\* and comes at least targetFrameInterval after the frame before it: the
\* test at 89 is false
StreamArrive ==
    /\ cb.pc = "idle"
    /\ session.running /\ session.outputs # {}
    /\ cb' = [cb EXCEPT !.pc = "trylock", !.currentTime = now,
                        !.interval = targetFrameInterval, !.deliveredAt = mono]
    /\ UNCHANGED <<camVars, frameLock, delegateVars, buffers, now, mono, conditionLock,
                   ctl, cons, frame, stale>>

\* if (![_frameLock tryLock]) { _droppedFrames++; return; }
StreamTryLock ==
    /\ cb.pc = "trylock"
    /\ IF TryLock(frameLock)
       THEN /\ frameLock' = TRUE
            /\ cb' = [cb EXCEPT !.pc = "locked"]
       ELSE /\ cb' = CbReturn(cb)
            /\ UNCHANGED frameLock
    /\ UNCHANGED <<camVars, delegateVars, buffers, now, mono, conditionLock, ctl, cons,
                   frame, stale>>

\* the callback's section under frameLock, to [_frameLock unlock]
StreamStore ==
    /\ cb.pc = "locked"
    /\ IF DropUnconsumed(hasNewFrame, frameCount)
       THEN /\ cb' = CbReturn(cb)
            /\ UNCHANGED <<latestFrame, hasNewFrame, frameCount, lastFrameTime, buffers,
                           cons>>
       ELSE /\ buffers' = Retain(<< >>, videoSettings.w, videoSettings.h, cb.deliveredAt)
            /\ latestFrame' = 1
            /\ hasNewFrame' = TRUE
            /\ frameCount' = (frameCount + 1) % SnapshotEvery
            /\ lastFrameTime' = cb.currentTime
            /\ cb' = [cb EXCEPT !.pc = "signal"]
            /\ cons' = Accepted(cons)
    /\ frameLock' = FALSE
    /\ UNCHANGED <<camVars, droppedFrames, targetFrameInterval, now, mono, conditionLock,
                   ctl, frame, stale>>

(* ---------------------------- the consumers --------------------------- *)
\* the camera may be used: it has not been handed to macos_camera_destroy
Usable == ctl.op # "destroy"

\* macos_camera_grab_frame: [cam->delegate.frameLock lock]
GrabLock(c) ==
    /\ cons[c].pc = "idle" /\ Usable
    /\ ~frameLock
    /\ frameLock' = TRUE
    /\ cons' = [cons EXCEPT ![c] = [Idle(0) EXCEPT !.pc = "grab_cs"]]
    /\ UNCHANGED <<camVars, delegateVars, buffers, now, mono, conditionLock, cb, ctl, frame, stale>>

\* a grab that leaves the frame marked new
MarkConsumedForgotten(hasNew) == hasNew

\* cam->delegate.hasNewFrame = false
MarkConsumed(hasNew) == FALSE

\* macos_camera_grab_frame under the lock, to the return
GrabBody(c) ==
    /\ cons[c].pc = "grab_cs"
    /\ IF NoNewFrame(hasNewFrame, latestFrame)
       THEN /\ cons' = [cons EXCEPT ![c] = Idle(-1)]
            /\ UNCHANGED <<hasNewFrame, frame, stale>>
       ELSE \E baseOk \in BOOLEAN :
              LET r == PixelBufferToFrame(buffers[latestFrame], frame[c], cam.format,
                                          baseOk, mono)
              IN  /\ frame' = [frame EXCEPT ![c] = IF r.ret = 0
                                                    THEN [r.frame EXCEPT !.src = latestFrame]
                                                    ELSE r.frame]
                  /\ hasNewFrame' = MarkConsumed(hasNewFrame)
                  /\ stale' = 0
                  /\ cons' = [cons EXCEPT ![c] = Idle(r.ret)]
    /\ frameLock' = FALSE
    /\ UNCHANGED <<camVars, latestFrame, frameCount, droppedFrames, lastFrameTime,
                   targetFrameInterval, buffers, now, mono, conditionLock, cb, ctl>>

\* macos_camera_has_frame: [cam->delegate.frameLock lock]
HasLock(c) ==
    /\ cons[c].pc = "idle" /\ Usable
    /\ ~frameLock
    /\ frameLock' = TRUE
    /\ cons' = [cons EXCEPT ![c] = [Idle(0) EXCEPT !.pc = "has_cs"]]
    /\ UNCHANGED <<camVars, delegateVars, buffers, now, mono, conditionLock, cb, ctl, frame, stale>>

\* macos_camera_has_frame under the lock, to the return
HasBody(c) ==
    /\ cons[c].pc = "has_cs"
    /\ cons' = [cons EXCEPT ![c] = Idle(IF hasNewFrame THEN 1 ELSE 0)]
    /\ frameLock' = FALSE
    /\ UNCHANGED <<camVars, delegateVars, buffers, now, mono, conditionLock, cb, ctl, frame, stale>>

(* --------------------------- wait_frame ------------------------------- *)
\* timeout_sec of macos_camera_wait_frame, in ticks
WaitTimeouts == { 0, 1 }

\* a lock that forgets to lock
AfterLockForgotten(lock) == lock

\* [x lock] on a free lock x: the lock is held afterwards
AfterLock(lock) == TRUE

\* a result that trusts the wakeup alone
WaitResultBySignal(success, hasFrame) == IF success THEN 1 ELSE 0

\* if (success && macos_camera_has_frame(cam)) return 1; else return 0;
WaitResult(success, hasFrame) == IF success /\ hasFrame THEN 1 ELSE 0

\* the consumer returns ret from wait_frame; the marks of the call are kept
\* until the next call begins
WaitReturn(c, ret) == [c EXCEPT !.pc = "idle", !.ret = ret]

\* macos_camera_wait_frame(NULL, timeout_sec): return -1, before any lock
WaitNull(c) ==
    /\ cons[c].pc = "idle"
    /\ cons' = [cons EXCEPT ![c] = Idle(-1)]
    /\ UNCHANGED <<camVars, frameLock, delegateVars, buffers, now, mono, conditionLock,
                   cb, ctl, frame, stale>>

\* macos_camera_wait_frame: [cam->delegate.frameCondition lock]
WaitLock(c) ==
    /\ cons[c].pc = "idle" /\ Usable
    /\ ~conditionLock
    /\ conditionLock' = AfterLock(conditionLock)
    /\ cons' = [cons EXCEPT ![c] = [Idle(0) EXCEPT !.pc = "wait_entry"]]
    /\ UNCHANGED <<camVars, frameLock, delegateVars, buffers, now, mono, cb, ctl, frame,
                   stale>>

\* the first macos_camera_has_frame of wait_frame: [frameLock lock]
WaitCheckLock(c) ==
    /\ cons[c].pc = "wait_entry"
    /\ ~frameLock
    /\ frameLock' = TRUE
    /\ cons' = [cons EXCEPT ![c].pc = "wait_has_cs"]
    /\ UNCHANGED <<camVars, delegateVars, buffers, now, mono, conditionLock, cb, ctl,
                   frame, stale>>

\* the first has_frame under the lock; a frame already there: unlock the
\* condition and return 1
WaitCheckBody(c) ==
    /\ cons[c].pc = "wait_has_cs"
    /\ frameLock' = FALSE
    /\ IF hasNewFrame
       THEN /\ cons' = [cons EXCEPT ![c] = WaitReturn(@, 1)]
            /\ conditionLock' = FALSE
       ELSE /\ cons' = [cons EXCEPT ![c].pc = "wait_checked"]
            /\ UNCHANGED conditionLock
    /\ UNCHANGED <<camVars, delegateVars, buffers, now, mono, cb, ctl, frame, stale>>

\* a wait that keeps the condition's lock while it blocks
WaitUntilDateKeepsLock(lock) == lock

\* [frameCondition waitUntilDate:] gives up the condition's lock while it
\* blocks: the lock afterwards
WaitUntilDate(lock) == FALSE

\* timeoutDate = now + timeout_sec; [frameCondition waitUntilDate:] gives up
\* the condition's lock and blocks
WaitBlock(c) ==
    /\ cons[c].pc = "wait_checked"
    /\ \E timeout \in WaitTimeouts :
         cons' = [cons EXCEPT ![c].pc = "waiting", ![c].deadline = now + timeout]
    /\ conditionLock' = WaitUntilDate(conditionLock)
    /\ UNCHANGED <<camVars, frameLock, delegateVars, buffers, now, mono, cb, ctl, frame,
                   stale>>

\* the deadline passes before a signal comes
WaitTimeout(c) ==
    /\ cons[c].pc = "waiting"
    /\ now >= cons[c].deadline
    /\ cons' = [cons EXCEPT ![c].pc = "timedout"]
    /\ UNCHANGED <<camVars, frameLock, delegateVars, buffers, now, mono, conditionLock,
                   cb, ctl, frame, stale>>

\* a wakeup without signal, which NSCondition allows
WaitSpurious(c) ==
    /\ cons[c].pc = "waiting"
    /\ cons' = [cons EXCEPT ![c].pc = "woken"]
    /\ UNCHANGED <<camVars, frameLock, delegateVars, buffers, now, mono, conditionLock,
                   cb, ctl, frame, stale>>

\* waitUntilDate takes the condition's lock again and returns;
\* [frameCondition unlock]; a timeout returns 0 without a further check
WaitResume(c) ==
    /\ cons[c].pc \in {"woken", "timedout"}
    /\ ~conditionLock
    /\ cons' = [cons EXCEPT ![c] = IF @.pc = "woken"
                                    THEN [@ EXCEPT !.pc = "wait_final"]
                                    ELSE WaitReturn(@, WaitResult(FALSE, hasNewFrame))]
    /\ UNCHANGED <<camVars, frameLock, delegateVars, buffers, now, mono, conditionLock,
                   cb, ctl, frame, stale>>

\* the second macos_camera_has_frame of wait_frame: [frameLock lock]
WaitFinalLock(c) ==
    /\ cons[c].pc = "wait_final"
    /\ ~frameLock
    /\ frameLock' = TRUE
    /\ cons' = [cons EXCEPT ![c].pc = "wait_has2_cs"]
    /\ UNCHANGED <<camVars, delegateVars, buffers, now, mono, conditionLock, cb, ctl,
                   frame, stale>>

\* the second has_frame under the lock, and the return of wait_frame
WaitFinalBody(c) ==
    /\ cons[c].pc = "wait_has2_cs"
    /\ frameLock' = FALSE
    /\ cons' = [cons EXCEPT ![c] = WaitReturn(@, WaitResult(TRUE, hasNewFrame))]
    /\ UNCHANGED <<camVars, delegateVars, buffers, now, mono, conditionLock, cb, ctl,
                   frame, stale>>

\* CACurrentMediaTime advances, up to maxTime
Tick(maxTime) ==
    /\ now < maxTime
    /\ now' = now + 1
    /\ UNCHANGED <<camVars, frameLock, delegateVars, buffers, mono, conditionLock, cb,
                   ctl, cons, frame, stale>>

\* the clock of us_get_now_monotonic advances, up to maxTime
MonoTick(maxTime) ==
    /\ mono < maxTime
    /\ mono' = mono + 1
    /\ UNCHANGED <<camVars, frameLock, delegateVars, buffers, now, conditionLock, cb,
                   ctl, cons, frame, stale>>

(* -------------------------- the control thread ----------------------- *)
ControlVars == <<frameLock, delegateVars, buffers, now, mono, conditionLock, cb, cons,
                 frame, stale>>

\* an index parsed as if it counted from 1
ParseIndexOneBased(device_id) ==
    CASE device_id = "1" -> 0
      [] device_id = "2" -> 1
      [] OTHER -> -1

\* strtol(device_id, &endptr, 10) with *endptr == '\0': the index, or -1
ParseIndex(device_id) ==
    CASE device_id = "0" -> 0
      [] device_id = "" -> 0          \* no digits: strtol gives 0, endptr at the end
      [] device_id = "1" -> 1
      [] device_id = "2" -> 2
      [] OTHER -> -1

\* the device macos_camera_select_device picks (an index into Devices), 0 = nil
SelectedDevice(device_id) ==
    LET byIndex == IF ParseIndex(device_id) >= 0 /\ ParseIndex(device_id) < Len(Devices)
                   THEN ParseIndex(device_id) + 1
                   ELSE 0
        byId == IF \E i \in 1..Len(Devices) : Devices[i].id = device_id
                THEN CHOOSE i \in 1..Len(Devices) :
                        /\ Devices[i].id = device_id
                        /\ \A j \in 1..(i - 1) : Devices[j].id # device_id
                ELSE 0
        found == IF device_id = "/dev/video0" THEN 0
                 ELSE IF byIndex # 0 THEN byIndex ELSE byId
        \* [AVCaptureDevice defaultDeviceWithMediaType:]
        default == IF Len(Devices) > 0 THEN 1 ELSE 0
    IN  IF found # 0 THEN found ELSE default

\* the device_id arguments of select_device: the default path, indices in and
\* out of range, the empty string, unique IDs, and an ID no camera has
DeviceIds == { "/dev/video0", "0", "1", "2", "", "cam0", "cam1", "nocam" }

\* the device_id the life-cycle specifications select with
FirstCamera == { "0" }

\* the control thread after select_device(device_id) returned ret
SelectReturned(device_id, ret) ==
    [pc |-> "idle", op |-> "none", done |-> "select_device", ret |-> ret,
     arg |-> device_id]

\* macos_camera_select_device, called with one of ids; observed says whether
\* the caller keeps the return value
SelectDevice(ids, observed) ==
    /\ ctl.pc = "idle"
    /\ \E device_id \in ids :
         LET d == SelectedDevice(device_id) IN
         /\ IF d = 0
            THEN UNCHANGED <<cam, heap>>      \* "No camera devices found", -1
            ELSE /\ cam' = [cam EXCEPT !.device = d, !.device_name = d]
                 \* free(cam->device_name) if set, then us_strdup(name)
                 /\ heap' = [heap EXCEPT
                                !.names = (IF cam.device_name # 0 THEN @ - 1 ELSE @) + 1]
         /\ ctl' = IF observed
                   THEN SelectReturned(device_id, IF d = 0 THEN -1 ELSE 0)
                   ELSE ctl
    /\ UNCHANGED <<session, device, videoSettings, ControlVars>>

\* macos_camera_set_resolution
SetResolution ==
    /\ ctl.pc = "idle"
    /\ \E r \in Resolutions : cam' = [cam EXCEPT !.width = r[1], !.height = r[2]]
    /\ UNCHANGED <<session, device, videoSettings, heap, ctl, ControlVars>>

\* macos_camera_set_fps
SetFps ==
    /\ ctl.pc = "idle"
    /\ \E fps \in FpsChoices :
         /\ cam' = [cam EXCEPT !.fps = fps]
         /\ targetFrameInterval' = Interval(fps)
    /\ UNCHANGED <<session, device, videoSettings, heap, ctl, frameLock, latestFrame,
                   hasNewFrame, frameCount, droppedFrames, lastFrameTime, buffers,
                   now, mono, conditionLock, cb, cons, frame, stale>>

\* macos_camera_set_format
SetFormat ==
    /\ ctl.pc = "idle"
    /\ \E format \in PixFormats : cam' = [cam EXCEPT !.format = format]
    /\ UNCHANGED <<session, device, videoSettings, heap, ctl, ControlVars>>

(* ------------------------------- start -------------------------------- *)
\* the format loop of start: the first format whose dimensions equal the
\* requested ones (an index into formats), 0 = nil
BestFormat(formats, width, height) ==
    IF \E i \in 1..Len(formats) : formats[i].w = width /\ formats[i].h = height
    THEN CHOOSE i \in 1..Len(formats) :
            /\ formats[i].w = width /\ formats[i].h = height
            /\ \A j \in 1..(i - 1) : ~(formats[j].w = width /\ formats[j].h = height)
    ELSE 0

Abs(x) == IF x < 0 THEN -x ELSE x

\* the frame-rate loop of start from range i on: best is the bestRange so far
\* (0 = nil, bestDiff = FLT_MAX), the result is the final bestRange
RECURSIVE BestRangeFrom(_, _, _, _)
BestRangeFrom(ranges, fps, i, best) ==
    IF i > Len(ranges) THEN best
    ELSE LET minRate == ranges[i][1]
             maxRate == ranges[i][2]
             diff == Abs(fps - minRate)
             better == /\ fps >= minRate /\ fps <= maxRate
                       /\ (best = 0 \/ diff < Abs(fps - ranges[best][1]))
         IN  BestRangeFrom(ranges, fps, i + 1, IF better THEN i ELSE best)

BestRange(ranges, fps) == BestRangeFrom(ranges, fps, 1, 0)

\* actualFps: the requested rate clamped into bestRange
ActualFps(range, fps) ==
    IF fps < range[1] THEN range[1]
    ELSE IF fps > range[2] THEN range[2]
    ELSE fps

\* the control thread after call returned ret
Returned(call, ret) ==
    [pc |-> "idle", op |-> "none", done |-> call, ret |-> ret, arg |-> ""]

\* what AVFoundation answers during one start
StartEnv == [inputOk : BOOLEAN, canAddInput : BOOLEAN, canAddOutput : BOOLEAN,
             connection : BOOLEAN, lockOk : BOOLEAN]

\* macos_camera_start is called; maxStarts caps the outputs start allocates
StartCall(maxStarts) ==
    /\ ctl.pc = "idle"
    /\ heap.outputs < maxStarts
    /\ ctl' = [ctl EXCEPT !.pc = "start_entry", !.op = "start"]
    /\ UNCHANGED <<camVars, ControlVars>>

\* the body of macos_camera_start, to its return
StartBody ==
    /\ ctl.pc = "start_entry"
    /\ IF cam.device = 0
       THEN /\ ctl' = Returned("start", -1)
            /\ UNCHANGED <<camVars, targetFrameInterval>>
       ELSE IF cam.running
       THEN /\ ctl' = Returned("start", 0)
            /\ UNCHANGED <<camVars, targetFrameInterval>>
       ELSE \E env \in StartEnv :
            LET formats == Devices[cam.device].formats
                \* the input and the output this start creates
                input == heap.outputs + 1
                output == heap.outputs + 1
                bestFormat == BestFormat(formats, cam.width, cam.height)
                configured == env.connection /\ bestFormat # 0 /\ env.lockOk
                bestRange == IF configured
                             THEN BestRange(formats[bestFormat].ranges, cam.fps)
                             ELSE 0
                actualFps == IF bestRange # 0
                             THEN ActualFps(formats[bestFormat].ranges[bestRange], cam.fps)
                             ELSE 0
            IN
            IF ~env.inputOk
            THEN \* deviceInputWithDevice failed
                 /\ cam' = [cam EXCEPT !.input = 0]
                 /\ ctl' = Returned("start", -1)
                 /\ UNCHANGED <<session, device, videoSettings, heap, targetFrameInterval>>
            ELSE IF ~env.canAddInput
            THEN \* the output is allocated, the input cannot be added
                 /\ cam' = [cam EXCEPT !.input = input, !.output = output]
                 /\ heap' = [heap EXCEPT !.outputs = @ + 1]
                 /\ ctl' = Returned("start", -1)
                 /\ UNCHANGED <<session, device, videoSettings, targetFrameInterval>>
            ELSE IF ~env.canAddOutput
            THEN \* the input is added, the output cannot be added
                 /\ cam' = [cam EXCEPT !.input = input, !.output = output]
                 /\ heap' = [heap EXCEPT !.outputs = @ + 1]
                 /\ session' = [session EXCEPT !.inputs = @ \cup {input}]
                 /\ ctl' = Returned("start", -1)
                 /\ UNCHANGED <<device, videoSettings, targetFrameInterval>>
            ELSE /\ cam' = [cam EXCEPT !.input = input, !.output = output, !.running = TRUE]
                 /\ heap' = [heap EXCEPT !.outputs = @ + 1]
                 /\ videoSettings' = [w |-> cam.width, h |-> cam.height]
                 /\ session' = [inputs |-> session.inputs \cup {input},
                                outputs |-> session.outputs \cup {output},
                                running |-> TRUE]
                 /\ device' = IF configured
                              THEN [activeFormat |-> bestFormat, fps |-> actualFps]
                              ELSE [activeFormat |-> 0, fps |-> 0]
                 /\ targetFrameInterval' = IF bestRange # 0 THEN Interval(actualFps)
                                           ELSE targetFrameInterval
                 /\ ctl' = Returned("start", 0)
    /\ UNCHANGED <<frameLock, latestFrame, hasNewFrame, frameCount, droppedFrames,
                   lastFrameTime, buffers, now, mono, conditionLock, cb, cons, frame, stale>>

(* --------------------------- stop and destroy ------------------------- *)
\* where the control thread goes when macos_camera_stop returns
AfterStop == IF ctl.op = "destroy"
             THEN [ctl EXCEPT !.pc = "destroy_free"]
             ELSE Returned("stop", 0)

\* macos_camera_stop is called
StopCall ==
    /\ ctl.pc = "idle"
    /\ ctl' = [ctl EXCEPT !.pc = "stop_entry", !.op = "stop"]
    /\ UNCHANGED <<camVars, ControlVars>>

\* if (cam == NULL || !cam->running) return 0;
StopNotRunning ==
    /\ ctl.pc = "stop_entry"
    /\ ~cam.running
    /\ ctl' = AfterStop
    /\ UNCHANGED <<camVars, ControlVars>>

\* [cam->session stopRunning]: no callback begins from here on
StopRunning ==
    /\ ctl.pc = "stop_entry"
    /\ cam.running
    /\ session' = [session EXCEPT !.running = FALSE]
    /\ ctl' = [ctl EXCEPT !.pc = "stop_sleep"]
    /\ UNCHANGED <<cam, device, videoSettings, heap, ControlVars>>

\* usleep(100000), which outlasts a callback in progress; removeInput,
\* removeOutput, setSampleBufferDelegate:nil
StopDetach ==
    /\ ctl.pc = "stop_sleep"
    /\ cb.pc = "idle"
    /\ session' = [session EXCEPT !.inputs = @ \ {cam.input},
                                  !.outputs = @ \ {cam.output}]
    /\ ctl' = [ctl EXCEPT !.pc = "stop_lock"]
    /\ UNCHANGED <<cam, device, videoSettings, heap, ControlVars>>

\* [cam->delegate.frameLock lock] in stop
StopLock ==
    /\ ctl.pc = "stop_lock"
    /\ ~frameLock
    /\ frameLock' = TRUE
    /\ ctl' = [ctl EXCEPT !.pc = "stop_cs"]
    /\ UNCHANGED <<camVars, delegateVars, buffers, now, mono, conditionLock, cb, cons, frame, stale>>

\* a stop that leaves hasNewFrame as it was
StopReleaseKeepsFlag(bufs, latest) ==
    LET r == ReleaseLatest(bufs, latest) IN <<r[1], r[2], hasNewFrame>>

\* the final-frame release of stop: <<buffers, latestFrame, hasNewFrame>> after it
StopRelease(bufs, latest) ==
    LET r == ReleaseLatest(bufs, latest) IN <<r[1], r[2], FALSE>>

\* a stop that forgets cam->running = false
StopFinishStillRunning(c) == [c EXCEPT !.input = 0, !.output = 0]

\* cam->input = nil; cam->output = nil; cam->running = false;
StopFinish(c) == [c EXCEPT !.input = 0, !.output = 0, !.running = FALSE]

\* stop under the lock, to its return
StopClear ==
    /\ ctl.pc = "stop_cs"
    /\ LET r == StopRelease(buffers, latestFrame)
       IN  /\ buffers' = r[1]
           /\ latestFrame' = r[2]
           /\ hasNewFrame' = r[3]
    /\ frameLock' = FALSE
    /\ cam' = StopFinish(cam)
    /\ stale' = 0
    /\ ctl' = AfterStop
    /\ UNCHANGED <<session, device, videoSettings, heap, frameCount, droppedFrames,
                   lastFrameTime, targetFrameInterval, now, mono, conditionLock, cb, cons, frame>>

\* macos_camera_destroy is called: no other thread is using the camera
DestroyCall ==
    /\ ctl.pc = "idle"
    /\ \A c \in DOMAIN cons : cons[c].pc = "idle"
    /\ ctl' = [ctl EXCEPT !.op = "destroy",
                          !.pc = IF cam.running THEN "stop_entry" ELSE "destroy_free"]
    /\ UNCHANGED <<camVars, ControlVars>>

\* what macos_camera_destroy releases: device_name and the queue
DestroyRelease(h, c) ==
    [h EXCEPT !.names = IF c.device_name # 0 THEN @ - 1 ELSE @,
              !.queue = @ - 1]

\* free(cam->device_name); dispatch_release(cam->queue); free(cam);
DestroyFree ==
    /\ ctl.pc = "destroy_free"
    /\ heap' = DestroyRelease(heap, cam)
    /\ ctl' = [ctl EXCEPT !.pc = "dead", !.done = "destroy"]
    /\ UNCHANGED <<cam, session, device, videoSettings, ControlVars>>

(* --------------------------- specifications --------------------------- *)
Callback(maxF, maxD, pixelBuffers) ==
    CbArrive(maxF, maxD, pixelBuffers) \/ CbTryLock \/ CbStore \/ CbSignal

Consumer == \E c \in DOMAIN cons :
    GrabLock(c) \/ GrabBody(c) \/ HasLock(c) \/ HasBody(c)

Waiter == \E c \in DOMAIN cons :
    \/ WaitLock(c) \/ WaitCheckLock(c) \/ WaitCheckBody(c) \/ WaitBlock(c)
    \/ WaitTimeout(c) \/ WaitSpurious(c) \/ WaitResume(c)
    \/ WaitFinalLock(c) \/ WaitFinalBody(c)

\* a consumer that loops: wait_frame, and grab_frame when it returned 1;
\* the pixel buffers are such that their conversion succeeds
WaitThenGrab(c) ==
    \/ cons[c].ret # 1 /\ WaitLock(c)
    \/ WaitCheckLock(c) \/ WaitCheckBody(c) \/ WaitBlock(c)
    \/ WaitTimeout(c) \/ WaitResume(c)
    \/ WaitFinalLock(c) \/ WaitFinalBody(c)
    \/ cons[c].ret = 1 /\ GrabLock(c)
    \/ GrabBody(c) /\ (NoNewFrame(hasNewFrame, latestFrame) \/ cons'[c].ret = 0)

Setters == SetResolution \/ SetFps \/ SetFormat

Lifecycle(maxStarts) ==
    \/ SelectDevice(FirstCamera, FALSE)
    \/ StartCall(maxStarts) \/ StartBody
    \/ StopCall \/ StopNotRunning \/ StopRunning \/ StopDetach \/ StopLock \/ StopClear
    \/ DestroyCall \/ DestroyFree

\* the callback, NumConsumers consumers and the camera's life cycle
Init == Boot(1..NumConsumers)
Next == \/ Callback(MaxFrames, MaxDropped, {TRUE}) \/ Consumer \/ Lifecycle(MaxStarts)
        \/ Tick(MaxTime)
Spec == Init /\ [][Next]_vars

\* one consumer, and the camera started more than once
InitLife == Boot({1})
NextLife == \/ Callback(MaxFrames, MaxDropped, {TRUE}) \/ Consumer \/ Lifecycle(LifeStarts)
            \/ Tick(MaxTime) \/ MonoTick(MaxTime)
SpecLife == InitLife /\ [][NextLife]_vars

\* one consumer and every operation, the configuration calls included
NextFull == \/ Callback(MaxFrames, MaxDropped, {TRUE}) \/ Consumer \/ Lifecycle(LifeStarts)
            \/ Tick(MaxTime) \/ Setters
SpecFull == InitLife /\ [][NextFull]_vars

\* one consumer and a camera that is never stopped, with many dropped frames
NextSnapshot == \/ Callback(MaxFrames, SnapDropped, BOOLEAN) \/ Consumer \/ Tick(MaxTime)
                \/ SelectDevice(FirstCamera, FALSE) \/ StartCall(MaxStarts) \/ StartBody
SpecSnapshot == InitLife /\ [][NextSnapshot]_vars

\* one consumer that also waits for frames, and a camera that is never stopped
NextWait == \/ Callback(MaxFrames, MaxDropped, {TRUE}) \/ Consumer \/ Waiter
            \/ Tick(MaxTime) \/ SelectDevice(FirstCamera, FALSE) \/ StartCall(MaxStarts) \/ StartBody
SpecWait == InitLife /\ [][NextWait]_vars

\* the callback, two consumer threads that poll, wait and grab, and a camera
\* that is started and stopped; the clock stands still, so that a wait ends
\* by a signal, by a spurious wakeup or by a timeout of 0
InitLocks == Boot({1, 2})
NextLocks == \/ Callback(MaxFrames, MaxDropped, {TRUE}) \/ Consumer \/ Waiter
             \/ SelectDevice(FirstCamera, FALSE)
             \/ StartCall(MaxStarts) \/ StartBody
             \/ StopCall \/ StopNotRunning \/ StopRunning \/ StopDetach \/ StopLock
             \/ StopClear
SpecLocks == InitLocks /\ [][NextLocks]_vars

\* the control thread alone: every way of selecting a camera, with start and
\* stop
NextSelect == \/ SelectDevice(DeviceIds, TRUE)
              \/ StartCall(MaxStarts) \/ StartBody
              \/ StopCall \/ StopNotRunning \/ StopRunning \/ StopDetach \/ StopLock
              \/ StopClear
SpecSelect == InitLife /\ [][NextSelect]_vars

\* a camera that streams without end to one consumer that loops over
\* wait_frame and grab_frame. The callback and the consumer are threads that
\* keep running, and a thread that waits for a lock gets it if the lock is
\* free again and again: each takes its next step if it can again and
\* again. Frame arrivals and spurious wakeups happen when they happen.
NextStream == \/ StreamArrive \/ StreamTryLock \/ StreamStore \/ CbSignal
              \/ (\E c \in DOMAIN cons : WaitThenGrab(c) \/ WaitSpurious(c))
              \/ SelectDevice(FirstCamera, FALSE) \/ StartCall(MaxStarts) \/ StartBody
SpecStream == /\ InitLife /\ [][NextStream]_vars
              /\ SF_vars(StreamTryLock \/ StreamStore \/ CbSignal)
              /\ SF_vars(\E c \in DOMAIN cons : WaitThenGrab(c))

\* one consumer and a camera that is never stopped, long enough for
\* frameCount to pass a multiple of SnapshotEvery
NextReplace == \/ Callback(ReplaceFrames, MaxDropped, {TRUE}) \/ Consumer
               \/ Tick(ReplaceTime) \/ SelectDevice(FirstCamera, FALSE)
               \/ StartCall(MaxStarts) \/ StartBody
SpecReplace == InitLife /\ [][NextReplace]_vars

\* one consumer, a camera that is never stopped, and a frame rate that is
\* changed while frames arrive
NextThrottle == \/ Callback(MaxFrames, MaxDropped, {TRUE}) \/ Consumer
                \/ Tick(ThrottleTime)
                \/ SetFps \/ SelectDevice(FirstCamera, FALSE)
                \/ StartCall(MaxStarts) \/ StartBody
SpecThrottle == InitLife /\ [][NextThrottle]_vars

\* one consumer and a camera restarted at another resolution
NextFrame == \/ Callback(MaxFrames, MaxDropped, {TRUE}) \/ Consumer \/ Tick(MaxTime)
             \/ SelectDevice(FirstCamera, FALSE) \/ SetResolution
             \/ StartCall(LifeStarts) \/ StartBody
             \/ StopCall \/ StopNotRunning \/ StopRunning \/ StopDetach \/ StopLock
             \/ StopClear
SpecFrame == InitLife /\ [][NextFrame]_vars

\* the steps of wait_frame in thread c, for timeouts that end while the
\* clock still runs
WaitFrame(c) ==
    \/ WaitLock(c) \/ WaitCheckLock(c) \/ WaitCheckBody(c)
    \/ WaitBlock(c) /\ cons'[c].deadline <= MaxTime
    \/ WaitTimeout(c) \/ WaitResume(c)
    \/ WaitFinalLock(c) \/ WaitFinalBody(c)

\* the steps of the callback once a frame has arrived
CallbackRuns == CbTryLock \/ CbStore \/ CbSignal

\* the steps of start and stop once they are called
ControlRuns ==
    \/ StartBody
    \/ StopNotRunning \/ StopRunning \/ StopDetach \/ StopLock \/ StopClear

\* has_frame and grab_frame under frameLock
SectionEnds == \E c \in DOMAIN cons : GrabBody(c) \/ HasBody(c)

\* one consumer thread that waits, polls and grabs while the camera is
\* started and stopped and the clock runs. Every thread keeps running: a
\* thread inside a call takes its next step if it can do so from some
\* time on, and the clock advances up to MaxTime. Whether a frame arrives,
\* whether a call begins and whether a wait wakes without a signal is left
\* open.
NextTimeout == \/ Callback(MaxFrames, MaxDropped, {TRUE}) \/ Consumer
               \/ (\E c \in DOMAIN cons : WaitFrame(c) \/ WaitSpurious(c) \/ WaitNull(c))
               \/ Tick(MaxTime)
               \/ SelectDevice(FirstCamera, FALSE)
               \/ StartCall(MaxStarts) \/ StartBody
               \/ StopCall \/ StopNotRunning \/ StopRunning \/ StopDetach \/ StopLock
               \/ StopClear
SpecTimeout == /\ InitLife /\ [][NextTimeout]_vars
               /\ WF_vars(Tick(MaxTime))
               /\ WF_vars(CallbackRuns) /\ WF_vars(ControlRuns) /\ WF_vars(SectionEnds)
               /\ WF_vars(\E c \in DOMAIN cons : WaitFrame(c) /\ cons[c].pc # "idle")

(* ------------------------------- claims ------------------------------- *)
\* the number of threads inside a section that reads or writes the frame slot
InSection ==
    Cardinality({c \in DOMAIN cons :
                    cons[c].pc \in {"grab_cs", "has_cs", "wait_has_cs", "wait_has2_cs"}})
    + (IF cb.pc = "locked" THEN 1 ELSE 0)
    + (IF ctl.pc = "stop_cs" THEN 1 ELSE 0)

\* the delegate's retains of buffer b that it has not released
Live(b) == buffers[b].retains - buffers[b].releases

\* C1: at most one thread at a time is inside a section that reads or writes
\* latestFrame / hasNewFrame (the callback's store, grab_frame's copy,
\* has_frame's read, stop's clear), and frameLock is held exactly then.
C1_MutualExclusion == InSection <= 1 /\ (frameLock <=> InSection = 1)

\* a consumer is inside grab_frame's section while the callback is about to
\* try the lock
C1_Witness == \E c \in DOMAIN cons : cons[c].pc = "grab_cs" /\ cb.pc = "trylock"

\* C2: a grab_frame that returns 0 found hasNewFrame true and latestFrame
\* non-NULL; one that finds no new frame returns -1 and leaves the caller's
\* frame and the delegate's state as they were.
C2_GrabOnlyNewFrame ==
    [][\A c \in DOMAIN cons :
         (cons[c].pc = "grab_cs" /\ cons'[c].pc = "idle") =>
            /\ cons'[c].ret = 0 => (hasNewFrame /\ latestFrame # 0)
            /\ ~(hasNewFrame /\ latestFrame # 0) =>
                  /\ cons'[c].ret = -1
                  /\ frame' = frame
                  /\ UNCHANGED <<delegateVars, buffers>>]_vars

\* one consumer holds a grabbed frame and another one's call returned -1,
\* its frame untouched, because that frame was already consumed
C2_Witness ==
    \E c, d \in DOMAIN cons :
        /\ cons[c].ret = 0 /\ frame[c] # NoFrame
        /\ cons[d].pc = "idle" /\ cons[d].ret = -1 /\ frame[d] = NoFrame
        /\ latestFrame # 0 /\ ~hasNewFrame

\* C3: with an unconsumed frame stored, of every 10 arrivals that get past the
\* throttle at least one replaces the stored frame.
C3_EveryTenthRefreshes == stale < SnapshotEvery

\* C4: stop on a camera that is not running returns 0 and changes nothing;
\* every return of stop and of destroy leaves the camera not running.
C4_StopIdempotent ==
    [][/\ (ctl.pc = "stop_entry" /\ ctl.op = "stop" /\ ~cam.running /\ ctl' # ctl) =>
            /\ ctl'.pc = "idle" /\ ctl'.done = "stop" /\ ctl'.ret = 0
            /\ UNCHANGED <<camVars, frameLock, delegateVars, buffers>>
       /\ (ctl.op = "stop" /\ ctl.pc # "idle" /\ ctl'.pc = "idle") =>
            ~cam'.running /\ ctl'.ret = 0
       /\ ctl'.pc = "dead" => ~cam'.running]_vars

\* stop has returned 0 on a camera whose start had failed (cam->output is
\* still set, which a stop of a running camera clears)
C4_Witness ==
    /\ ctl.pc = "idle" /\ ctl.done = "stop" /\ ctl.ret = 0
    /\ ~cam.running /\ cam.output # 0

C6_FailedStartHoldsNothing ==
    (ctl.pc = "idle" /\ ctl.done = "start" /\ ctl.ret = -1) =>
        (~cam.running /\ session.inputs = {} /\ session.outputs = {})

\* C7: after destroy, everything init and start allocated has been released.
C7_NothingLeaked ==
    ctl.pc = "dead" =>
        /\ heap.session = 0 /\ heap.delegate = 0 /\ heap.queue = 0
        /\ heap.names = 0 /\ heap.outputs = 0

Distance(f, width, height) == Abs(f.w - width) + Abs(f.h - height)

NearestFormats(formats, width, height) ==
    {i \in 1..Len(formats) :
        \A j \in 1..Len(formats) :
            Distance(formats[i], width, height) <= Distance(formats[j], width, height)}

\* C9: a start that finds no format with the requested dimensions applies the
\* nearest format of the device, and the reported width and height are those
\* of the applied format and of the frames delivered.
C9_NearestFormatReported ==
    [][(/\ ctl.pc = "start_entry" /\ ~cam.running /\ cam'.running
        /\ BestFormat(Devices[cam.device].formats, cam.width, cam.height) = 0) =>
           \E i \in NearestFormats(Devices[cam.device].formats, cam.width, cam.height) :
               /\ device'.activeFormat = i
               /\ cam'.width = Devices[cam.device].formats[i].w
               /\ cam'.height = Devices[cam.device].formats[i].h
               /\ videoSettings'.w = cam'.width /\ videoSettings'.h = cam'.height]_vars

\* C10: a start that configures the chosen format applies a frame rate that
\* lies in one of the format's ranges, to the device and to the throttle.
C10_SomeRateApplied ==
    [][(/\ ctl.pc = "start_entry" /\ ~cam.running /\ cam'.running
        /\ device'.activeFormat # 0) =>
           LET ranges == Devices[cam.device].formats[device'.activeFormat].ranges IN
           /\ \E k \in 1..Len(ranges) :
                 ranges[k][1] <= device'.fps /\ device'.fps <= ranges[k][2]
           /\ targetFrameInterval' = Interval(device'.fps)]_vars

\* C11: set_fps never accepts fps = 0: cam->fps stays a usable rate and the
\* throttle interval stays finite, so not every later frame is dropped.
C11_ZeroFpsRejected == cam.fps # 0 /\ targetFrameInterval >= 0

\* consumer c's grab_frame returns 0 in this step
GrabSucceeds(c) == cons[c].pc = "grab_cs" /\ cons'[c].pc = "idle" /\ cons'[c].ret = 0

\* C13: the grab_ts of a grabbed frame is the clock reading at which its
\* pixel buffer was delivered to the callback.
C13_GrabTsIsDeliveryTime ==
    \A c \in DOMAIN cons :
        frame[c].src # 0 => frame[c].grab_ts = buffers[frame[c].src].t

C19_FramesAreYuyv ==
    \A c \in DOMAIN cons : frame[c].online => frame[c].format = "YUYV"

\* C20: a successful grab_frame returns a buffer that no grab_frame of any
\* consumer has returned before, and a grab that finds the buffer of an
\* earlier successful grab still the latest returns -1.
C20_FrameGrabbedOnce ==
    [][\A c \in DOMAIN cons :
         /\ GrabSucceeds(c) =>
               /\ frame'[c].src = latestFrame
               /\ \A d \in DOMAIN cons : frame[d].src # latestFrame
         /\ (cons[c].pc = "grab_cs" /\ cons'[c].pc = "idle"
             /\ \E d \in DOMAIN cons : frame[d].src = latestFrame) =>
               cons'[c].ret = -1]_vars

\* two consumers hold frames copied from two different buffers
C20_Witness ==
    \E c, d \in DOMAIN cons :
        c # d /\ frame[c].src = 1 /\ frame[d].src = 2

\* C15: every frame a successful grab_frame returned has used <= capacity and
\* stride * height <= capacity, with used exactly bytesPerRow * height.
C15_FrameFitsCapacity ==
    \A c \in DOMAIN cons :
        frame[c].online =>
            /\ frame[c].used <= frame[c].allocated
            /\ frame[c].stride * frame[c].height <= frame[c].allocated
            /\ frame[c].used = frame[c].stride * frame[c].height

\* a smaller frame was grabbed into the buffer grown for a larger one
C15_Witness ==
    \E c \in DOMAIN cons :
        /\ frame[c].online /\ frame[c].used > 0
        /\ frame[c].used < frame[c].allocated

\* C16: a sample buffer that carries no pixel buffer is discarded and counted
\* as dropped.
C16_BrokenFrameCounted ==
    [][(~cb.broken /\ cb'.broken) =>
           /\ droppedFrames' = droppedFrames + 1
           /\ latestFrame' = latestFrame /\ hasNewFrame' = hasNewFrame]_vars

\* C12: select_device with the decimal index of a discovered device, or with
\* a discovered device's unique ID, returns 0, selects that device and
\* records its name.
C12_SelectByIndexOrId ==
    (ctl.pc = "idle" /\ ctl.done = "select_device") =>
        \A i \in 1..Len(Devices) :
            (ctl.arg = ToString(i - 1) \/ ctl.arg = Devices[i].id) =>
                (ctl.ret = 0 /\ cam.device = i /\ cam.device_name = i)

\* the second camera was selected by its index after the first had been
\* selected
C12_Witness ==
    /\ ctl.pc = "idle" /\ ctl.done = "select_device" /\ ctl.arg = "1"
    /\ cam.device = 2 /\ heap.names = 1 /\ heap.outputs > 0

\* a call of consumer c returns in this step
Returns(c) == cons[c].pc # "idle" /\ cons'[c].pc = "idle"

C18_WaitFindsFrame ==
    [][\A c \in DOMAIN cons :
         /\ (Returns(c) /\ cons[c].pc \notin {"grab_cs", "has_cs"} /\ cons'[c].ret = 1)
               => (hasNewFrame /\ cons[c].pc \in {"wait_has_cs", "wait_has2_cs"})
         /\ (cons[c].pc = "wait_has_cs" /\ hasNewFrame /\ cons'[c] # cons[c])
               => (cons'[c].pc = "idle" /\ cons'[c].ret = 1)
         /\ (cons[c].pc = "idle" /\ cons[c].ret = 1)
               => (~NoNewFrame(hasNewFrame, latestFrame)
                   /\ ~NoNewFrame(hasNewFrame', latestFrame'))]_vars

\* a wait_frame that blocked and was woken has returned 1, and the consumer
\* has not yet grabbed the frame
C18_Witness ==
    \E c \in DOMAIN cons :
        /\ cons[c].pc = "idle" /\ cons[c].ret = 1 /\ cons[c].deadline > 0
        /\ hasNewFrame

\* C21: the callback tries frameLock without blocking: when another thread
\* holds it at that moment, the arriving frame is dropped, droppedFrames
\* grows by one, the callback returns, and latestFrame, hasNewFrame,
\* frameCount and lastFrameTime stay as they were.
C21_BusyLockDropsFrame ==
    [][(cb.pc = "trylock" /\ cb' # cb /\ frameLock) =>
           /\ cb'.pc = "idle"
           /\ droppedFrames' = droppedFrames + 1
           /\ frameLock'
           /\ UNCHANGED <<latestFrame, hasNewFrame, frameCount, lastFrameTime>>]_vars

\* the only drop so far happened before any frame was stored, so it was
\* neither the throttle's nor the unconsumed-frame rule's, and the thread
\* that held frameLock still holds it
C21_Witness ==
    /\ cb.pc = "idle" /\ droppedFrames = 1 /\ frameCount = 0 /\ frameLock
    /\ \E c \in DOMAIN cons : cons[c].pc \in {"grab_cs", "has_cs"}

\* C22: a callback invocation never waits for a lock a consumer holds: when
\* it is about to take the lock of frameCondition, no consumer holds it.
C22_CallbackNeverWaits == ~(cb.pc = "signal" /\ conditionLock)

\* some thread holds a lock or is at an acquisition of one
LockInUse ==
    \/ frameLock \/ conditionLock
    \/ cb.pc \in {"trylock", "signal"}
    \/ ctl.pc = "stop_lock"
    \/ \E c \in DOMAIN cons : cons[c].pc \in {"wait_entry", "wait_final", "woken", "timedout"}

\* a step of a thread that holds a lock or is at an acquisition of one
LockStep ==
    \/ CbTryLock \/ CbStore \/ CbSignal
    \/ StopLock \/ StopClear
    \/ \E c \in DOMAIN cons :
         \/ GrabBody(c) \/ HasBody(c)
         \/ WaitCheckLock(c) \/ WaitCheckBody(c) \/ WaitBlock(c) \/ WaitResume(c)
         \/ WaitFinalLock(c) \/ WaitFinalBody(c)

\* C23: no deadlock among the callback, has_frame, wait_frame, grab_frame and
\* stop: whenever a lock is held or requested, some thread that holds or
\* requests one can take its next step.
C23_NoDeadlock == LockInUse => ENABLED LockStep

\* a consumer holds the condition's lock and requests frameLock, which
\* another thread holds, while the callback requests the condition's lock
C23_Witness ==
    /\ cb.pc = "signal" /\ conditionLock /\ frameLock
    /\ \E c \in DOMAIN cons : cons[c].pc = "wait_entry"

\* C24: two consecutively accepted frames are at least the throttle interval
\* apart, the interval being the one the callback read when the later frame
\* arrived; a dropped frame does not advance lastFrameTime.
C24_Throttled ==
    [][/\ (frameCount' = frameCount + 1 /\ lastFrameTime > 0) =>
            /\ cb.interval >= 0
            /\ lastFrameTime' - lastFrameTime >= cb.interval
       /\ droppedFrames' # droppedFrames => lastFrameTime' = lastFrameTime]_vars

\* the callback holds the lock and is about to store a frame that arrived
\* exactly one interval after the previous accepted one, at the rate a
\* set_fps(15) put in force
C24_Witness ==
    /\ cb.pc = "locked" /\ ~DropUnconsumed(hasNewFrame, frameCount)
    /\ lastFrameTime > 0 /\ cb.interval = Interval(15)
    /\ cb.currentTime - lastFrameTime = cb.interval

\* the invocations that carried a pixel buffer and have been counted: all of
\* them, but the one that is between the throttle and its store or drop
Counted == cb.calls - (IF cb.pc \in {"trylock", "locked"} THEN 1 ELSE 0)

\* C25: every callback invocation that carries a pixel buffer increments
\* exactly one of frameCount and droppedFrames: their sum is the number of
\* such invocations, and neither counter ever decreases.
C25_EveryFrameCounted ==
    [][/\ frameCount' >= frameCount /\ droppedFrames' >= droppedFrames
       /\ frameCount + droppedFrames = Counted
       /\ frameCount' + droppedFrames' = Counted'
       /\ (frameCount' - frameCount) + (droppedFrames' - droppedFrames) <= 1]_vars

\* a frame was stored, others were dropped by the throttle and by the
\* unconsumed-frame rule, and a sample buffer without pixel buffer came
C25_Witness ==
    /\ cb.pc = "idle" /\ cb.broken
    /\ frameCount > 0 /\ stale > 0 /\ droppedFrames > stale

C27_NewFrameIsStored == hasNewFrame => latestFrame # 0

\* a restarted camera has stored a frame after stop had emptied the slot
C27_Witness ==
    /\ hasNewFrame /\ latestFrame > 1
    /\ buffers[1].releases = 1 /\ heap.outputs > 1

\* C28: a grab_frame whose conversion of the stored pixel buffer fails
\* returns -1 and leaves the caller's frame exactly as it was.
C28_FailedGrabKeepsFrame ==
    [][\A c \in DOMAIN cons :
         (cons[c].pc = "grab_cs" /\ cons'[c].pc = "idle" /\ cons'[c].ret # 0) =>
            /\ cons'[c].ret = -1
            /\ frame'[c] = frame[c]]_vars

\* a consumer that holds an earlier frame has made a grab that failed on a
\* pixel buffer larger than the per-frame limit
C28_Witness ==
    \E c \in DOMAIN cons :
        /\ cons[c].pc = "idle" /\ cons[c].ret = -1
        /\ frame[c].online /\ frame[c].src # latestFrame
        /\ latestFrame # 0 /\ ~hasNewFrame
        /\ DataSize(buffers[latestFrame]) > MaxFrameBytes

\* C29: a grab_frame that reaches the conversion marks the stored frame as
\* consumed whether or not the conversion succeeds, and a grab that finds
\* the frame consumed returns -1.
C29_FailedGrabConsumes ==
    [][\A c \in DOMAIN cons :
         (cons[c].pc = "grab_cs" /\ cons'[c].pc = "idle") =>
            /\ ~hasNewFrame'
            /\ ~hasNewFrame => cons'[c].ret = -1]_vars

\* a grab failed in the conversion, and the next grab, with no new frame
\* stored meanwhile, is inside its section and will find the flag cleared
C29_Witness ==
    \E c \in DOMAIN cons :
        /\ cons[c].pc = "grab_cs"
        /\ latestFrame # 0 /\ ~hasNewFrame
        /\ frame[c] = NoFrame

\* C30: if the camera keeps delivering frames spaced at least
\* targetFrameInterval apart to a single consumer that loops over wait_frame
\* and grab_frame, then grab_frame succeeds again and again.
C30_ConsumerProgress ==
    ([]<>(cb.pc = "trylock")) => []<><<\E c \in DOMAIN cons : GrabSucceeds(c)>>_vars

\* consumer c is inside a call of wait_frame
InWaitFrame(c) ==
    cons[c].pc \in {"wait_entry", "wait_has_cs", "wait_checked", "waiting", "woken",
                    "timedout", "wait_final", "wait_has2_cs"}

\* consumer c holds the lock of frameCondition
HoldsCondition(c) == cons[c].pc \in {"wait_entry", "wait_has_cs", "wait_checked"}

\* a call of wait_frame that consumer c is in returns, with 0 or 1
WaitFrameEnds(c) ==
    InWaitFrame(c) ~> (cons[c].pc = "idle" /\ cons[c].ret \in {0, 1})

\* C31: every call of wait_frame terminates: with -1 and without a lock for
\* a NULL camera; otherwise with 0 or 1, whether or not a frame ever arrives
\* and while stop runs, the wait itself ending as soon as the timeout has
\* passed; and the lock of frameCondition is held only by a thread inside
\* wait_frame, never after a return.
C31_WaitFrameTerminates ==
    /\ WaitFrameEnds(1)
    /\ [][\A c \in DOMAIN cons :
            /\ WaitNull(c) => cons'[c].ret = -1 /\ UNCHANGED <<conditionLock, frameLock>>
            /\ (InWaitFrame(c) /\ cons'[c].pc = "idle") =>
                  /\ cons'[c].ret \in {0, 1}
                  /\ ~conditionLock' \/ \E d \in DOMAIN cons : HoldsCondition(d)']_vars
    /\ [](conditionLock => \E c \in DOMAIN cons : HoldsCondition(c))
    /\ [](\A c \in DOMAIN cons :
            (cons[c].pc = "waiting" /\ now >= cons[c].deadline) =>
                ENABLED WaitTimeout(c))

\* a wait_frame with a timeout of one tick has returned 0 at its deadline,
\* no frame having been stored, while stop was inside its locked section
C31_Witness ==
    \E c \in DOMAIN cons :
        /\ cons[c].pc = "idle" /\ cons[c].ret = 0 /\ cons[c].deadline = now
        /\ cons[c].deadline > 1
        /\ ~cons[c].accepted /\ frameCount = 0
        /\ ctl.pc = "stop_cs"

====
